---- MODULE Spec2Model ----
(***************************************************************************)
(* Model of the code-execution engine of python-playground:                *)
(*   app/services/executor.py  (CodeExecutor)                              *)
(*   app/routes/execution.py   (POST /execute handler)                     *)
(*   app/config/config.py      (Settings)                                  *)
(* and of the category service that shares the server:                     *)
(*   app/services/category_service.py, app/models/category.py              *)
(* Text is a sequence of one-character strings, so that substring search   *)
(* and lower-casing are computed, not assumed.                             *)
(***************************************************************************)
EXTENDS Integers, Sequences, FiniteSets, TLC

\* ------------------------------------------------------------------ bounds
NumReq == 2        \* HTTP requests in flight
NumPaths == 2      \* names tempfile can still pick
MaxTests == 2      \* test cases of an exercise
MaxPieces == 2     \* fragments a candidate source is assembled from
MaxWidth == 1      \* largest configured max_concurrent_executions
NumClients == 2    \* category requests in flight
MaxCategories == 2 \* rows the categories table can hold

\* --------------------------------------------------------------- settings
code_execution_timeout == 5
max_concurrent_executions == 10

Req == 1..NumReq
Client == 1..NumClients

\* ------------------------------------------------------------------ state
VARIABLES
  settings,   \* the Settings object
  executor,   \* the CodeExecutor singleton: its attributes
  pc,         \* pc[r]: where request r's handler stands
  running,    \* the request whose handler occupies the event loop, 0 if none
  req,        \* req[r]: the request's code and the exercise it resolved
  tmp,        \* tmp[r]: name of the file this call created, "" if none
  fs,         \* the temporary files that exist
  child,      \* child[r]: the child process of request r
  exres,      \* exres[r]: what execute returned (or that it raised)
  resp,       \* resp[r]: the HTTP response of request r
  spawned,    \* spawned[r]: child processes started for request r
  scanlog,    \* history: the scans of the sources of ProbeSources, in order
  categories, \* the categories table: categories[id] is the name of row id
  session     \* session[c]: category request c, its handler and its answer

\* what the /execute handler and the engine leave alone
catvars == <<categories, session>>

\* ------------------------------------------------------------------- text
UpperCase == <<"A","B","C","D","E","F","G","H","I","J","K","L","M",
               "N","O","P","Q","R","S","T","U","V","W","X","Y","Z">>
LowerCase == <<"a","b","c","d","e","f","g","h","i","j","k","l","m",
               "n","o","p","q","r","s","t","u","v","w","x","y","z">>

LowerOf ==
  [c \in {UpperCase[i] : i \in 1..Len(UpperCase)} |->
     LowerCase[CHOOSE i \in 1..Len(UpperCase) : UpperCase[i] = c]]

\* str.lower() on one character
LowerChar(c) == IF c \in DOMAIN LowerOf THEN LowerOf[c] ELSE c

\* str.lower()
Lower(s) == [i \in 1..Len(s) |-> LowerChar(s[i])]

\* Python's `needle in hay` for strings
IsSubstring(needle, hay) ==
  \E i \in 0..(Len(hay) - Len(needle)) :
    \A j \in 1..Len(needle) : hay[i + j] = needle[j]

\* concatenation of a sequence of texts
RECURSIVE Concat(_)
Concat(ss) == IF ss = <<>> THEN <<>> ELSE Head(ss) \o Concat(Tail(ss))

\* sequences over S of length at most n
SeqsUpTo(S, n) == UNION {[1..k -> S] : k \in 0..n}

\* ---------------------------------------------------------------- scanner
BLACKLIST ==
  << <<"i","m","p","o","r","t"," ","o","s">>,
     <<"i","m","p","o","r","t"," ","s","y","s">>,
     <<"i","m","p","o","r","t"," ","s","u","b","p","r","o","c","e","s","s">>,
     <<"i","m","p","o","r","t"," ","s","h","u","t","i","l">>,
     <<"i","m","p","o","r","t"," ","s","o","c","k","e","t">>,
     <<"i","m","p","o","r","t"," ","u","r","l","l","i","b">>,
     <<"i","m","p","o","r","t"," ","r","e","q","u","e","s","t","s">>,
     <<"i","m","p","o","r","t"," ","h","t","t","p">>,
     <<"i","m","p","o","r","t"," ","f","t","p","l","i","b">>,
     <<"i","m","p","o","r","t"," ","s","m","t","p","l","i","b">>,
     <<"i","m","p","o","r","t"," ","p","i","c","k","l","e">>,
     <<"i","m","p","o","r","t"," ","s","h","e","l","v","e">>,
     <<"_","_","i","m","p","o","r","t","_","_">>,
     <<"e","v","a","l","(">>,
     <<"e","x","e","c","(">>,
     <<"c","o","m","p","i","l","e","(">>,
     <<"o","p","e","n","(">>,
     <<"f","i","l","e","(">>,
     <<"i","n","p","u","t","(">>,
     <<"r","a","w","_","i","n","p","u","t","(">> >>

\* An error message: its fixed wording, the text interpolated into it, and
\* the number interpolated into it (0 when there is none).
Msg(kind, text, limit) == [kind |-> kind, text |-> text, limit |-> limit]
NoMsg == Msg("", <<>>, 0)

\* `for blacklisted in self.BLACKLIST` from entry k on: the first entry whose
\* lower-cased form occurs in the lower-cased code; self.BLACKLIST is read
\* from the executor at every scan
RECURSIVE ScanFrom(_, _)
ScanFrom(code, k) ==
  IF k > Len(executor.BLACKLIST) THEN <<FALSE, NoMsg>>
  ELSE IF IsSubstring(Lower(executor.BLACKLIST[k]), Lower(code))
    THEN <<TRUE, Msg("Prohibited statement found: ", executor.BLACKLIST[k], 0)>>
    ELSE ScanFrom(code, k + 1)

\* the scan reporting the last deny-list entry that occurs, not the first
scan_last_match(code) ==
  LET hits == {n \in 1..Len(BLACKLIST) :
                 IsSubstring(Lower(BLACKLIST[n]), Lower(code))}
  IN  IF hits = {} THEN <<FALSE, NoMsg>>
      ELSE LET n == CHOOSE m \in hits : \A l \in hits : l <= m
           IN  <<TRUE, Msg("Prohibited statement found: ", BLACKLIST[n], 0)>>

\* the scan with the candidate's letter case left as written
scan_case_sensitive(code) ==
  IF \E n \in 1..Len(BLACKLIST) : IsSubstring(BLACKLIST[n], code)
    THEN LET n == CHOOSE m \in 1..Len(BLACKLIST) :
                    /\ IsSubstring(BLACKLIST[m], code)
                    /\ \A l \in 1..(m - 1) : ~IsSubstring(BLACKLIST[l], code)
         IN  <<TRUE, Msg("Prohibited statement found: ", BLACKLIST[n], 0)>>
    ELSE <<FALSE, NoMsg>>

\* CodeExecutor._contains_blacklisted_code
_contains_blacklisted_code(code) == ScanFrom(code, 1)

\* `f"def {function_name}" not in user_code`
EntryPointMissing(code, function_name) ==
  ~IsSubstring(<<"d","e","f"," ">> \o function_name, code)

\* ---------------------------------------------------------- Python values
\* A value is its type and a number standing for its content.
IntV(n) == [t |-> "int", v |-> n]
BoolV(b) == [t |-> "bool", v |-> IF b THEN 1 ELSE 0]
FloatV(n) == [t |-> "float", v |-> n]
StrV(n) == [t |-> "str", v |-> n]
NoneV == [t |-> "NoneType", v |-> 0]
\* a value json.dumps cannot serialize (a set, an object)
ObjV == [t |-> "object", v |-> 0]

Numeric == {"int", "bool", "float"}

\* Python's `a == b` on these values: numbers compare by value across
\* int, bool and float; everything else by type and content
PyEq(a, b) ==
  IF a.t \in Numeric /\ b.t \in Numeric THEN a.v = b.v
  ELSE a.t = b.t /\ a.v = b.v

\* ------------------------------------------------------------------- JSON
\* A JSON literal as written in text: its spelling class and its number.
Lit(lex, n) == [lex |-> lex, n |-> n]

Serializable(x) == x.t # "object"

\* json.dumps on a scalar
JsonDumps(x) ==
  CASE x.t = "int" -> Lit("int", x.v)
    [] x.t = "float" -> Lit("float", x.v)
    [] x.t = "str" -> Lit("string", x.v)
    [] x.t = "bool" -> IF x.v = 1 THEN Lit("true", 0) ELSE Lit("false", 0)
    [] x.t = "NoneType" -> Lit("null", 0)

\* json.loads on a scalar literal
JsonLoads(l) ==
  CASE l.lex = "int" -> IntV(l.n)
    [] l.lex = "float" -> FloatV(l.n)
    [] l.lex = "string" -> StrV(l.n)
    [] l.lex = "true" -> BoolV(TRUE)
    [] l.lex = "false" -> BoolV(FALSE)
    [] l.lex = "null" -> NoneV

\* The names a JSON literal spells that Python source does not define.
JsonOnlyNames == {"true", "false", "null"}

\* Python evaluating the literal as an expression of the harness source;
\* `bound` says whether the candidate bound the names true, false and null
\* to True, False and None.  The result is a value, or NameError.
NameError == [t |-> "NameError", v |-> 0]
PyEvalLiteral(l, bound) ==
  IF l.lex \in JsonOnlyNames /\ ~bound THEN NameError ELSE JsonLoads(l)

\* ----------------------------------------------------------------- inputs
\* Exercise.function_name of the stored exercises
FunctionName == <<"a","d","d">>

\* Fragments of candidate source; a candidate is up to MaxPieces of them.
Pieces ==
  { <<"d","e","f"," ","a","d","d">>,
    <<"2">>,
    <<"e","v","a","l","(">>,
    <<"E","V","A","L","(">>,
    <<"I","m","p","o","r","t"," ","O","S">> }

Sources == {Concat(ps) : ps \in SeqsUpTo(Pieces, MaxPieces)}

\* (input_data, expected_output) pairs of stored test cases; input_data is
\* the value of the single keyword argument
TestPool ==
  { [input_data |-> IntV(1), expected_output |-> IntV(1)],
    [input_data |-> StrV(1), expected_output |-> BoolV(TRUE)],
    [input_data |-> NoneV, expected_output |-> IntV(0)] }

\* TestCase.id of the i-th test case of an exercise (primary keys, distinct)
DbId(i) == 10 + i

\* test_cases_data of execute_code: the rows in order, with their ids
TestLists ==
  { [i \in DOMAIN ts |-> [id |-> DbId(i),
                          input_data |-> ts[i].input_data,
                          expected_output |-> ts[i].expected_output]] :
    ts \in SeqsUpTo(TestPool, MaxTests) }

\* what `select(Exercise)...scalar_one_or_none()` can return
NoExercise == [found |-> FALSE, function_name |-> <<>>, test_cases |-> <<>>]
Exercises ==
  {[found |-> TRUE, function_name |-> FunctionName, test_cases |-> tcs] :
     tcs \in TestLists}

\* names tempfile.NamedTemporaryFile can return
PathNames == <<"/tmp/tmpA.py", "/tmp/tmpB.py", "/tmp/tmpC.py", "/tmp/tmpD.py",
               "/tmp/tmpE.py", "/tmp/tmpF.py">>
Paths == {PathNames[i] : i \in 1..NumPaths}

\* a draw that takes the first name whether or not a file has it
FreshPath_First(existing) == {PathNames[1]}

\* The name NamedTemporaryFile picks: one that names no existing file (it
\* opens with O_EXCL and draws again on a collision).  Free names are
\* interchangeable, so the first free one stands for the draw; none when
\* every name is taken.
FreshPath(existing) ==
  {PathNames[i] : i \in {k \in 1..NumPaths :
                           /\ PathNames[k] \notin existing
                           /\ \A l \in 1..(k - 1) : PathNames[l] \in existing}}

\* ---------------------------------------------------------------- harness
\* One entry of the harness's `results` list.
Outcome(id, passed, actual, error) ==
  [test_id |-> id, passed |-> passed, actual_output |-> actual, error |-> error]

\* The list literal `{json.dumps(test_cases)}` of the harness source, one
\* record of literals per test case.
DumpCases(test_cases) ==
  [i \in DOMAIN test_cases |->
     [id |-> Lit("int", test_cases[i].id),
      input_data |-> JsonDumps(test_cases[i].input_data),
      expected_output |-> JsonDumps(test_cases[i].expected_output)]]

\* Python evaluating that literal when the `for` statement starts.
LiteralRaises(lits, bound) ==
  \E i \in DOMAIN lits :
    \/ PyEvalLiteral(lits[i].input_data, bound) = NameError
    \/ PyEvalLiteral(lits[i].expected_output, bound) = NameError

\* the list iterated from its last entry to its first
EvalCases_Reversed(lits, bound) ==
  [i \in DOMAIN lits |->
     [id |-> lits[Len(lits) + 1 - i].id.n,
      input_data |-> PyEvalLiteral(lits[Len(lits) + 1 - i].input_data, bound),
      expected_output |->
        PyEvalLiteral(lits[Len(lits) + 1 - i].expected_output, bound)]]

EvalCases(lits, bound) ==
  [i \in DOMAIN lits |->
     [id |-> lits[i].id.n,
      input_data |-> PyEvalLiteral(lits[i].input_data, bound),
      expected_output |-> PyEvalLiteral(lits[i].expected_output, bound)]]

\* What the candidate's function can do on one call.  ret: return value v;
\* raise: raise an Exception; exit: raise SystemExit(v); hang: never return.
\* `prints` says whether it wrote to stdout first.
Returnable(tc) ==
  {tc.expected_output, IntV(0), BoolV(TRUE), NoneV, ObjV}
Calls(tc) ==
  {[k |-> "ret", v |-> x, prints |-> pr] : x \in Returnable(tc), pr \in BOOLEAN}
    \cup {[k |-> "raise", v |-> NoneV, prints |-> FALSE],
          [k |-> "exit", v |-> IntV(0), prints |-> FALSE],
          [k |-> "exit", v |-> IntV(1), prints |-> FALSE],
          [k |-> "hang", v |-> NoneV, prints |-> FALSE]}

\* str(e) of the exception a candidate raised
ExcText == StrV(7)

\* the loop body with a wrong answer recorded as a fault of the test
TestBody_WrongIsError(tc, call) ==
  IF call.k = "ret" /\ PyEq(call.v, tc.expected_output)
    THEN Outcome(tc.id, TRUE, call.v, NoneV)
    ELSE Outcome(tc.id, FALSE, NoneV, ExcText)

\* The body of the harness's try statement for one test case and the
\* `except Exception` clause: the entry appended to `results`.
TestBody(tc, call) ==
  IF call.k = "ret"
    THEN Outcome(tc.id, PyEq(call.v, tc.expected_output), call.v, NoneV)
    ELSE Outcome(tc.id, FALSE, NoneV, ExcText)

\* whether the iteration appends an entry: the call returned, or raised
\* something `except Exception` catches (SystemExit is not an Exception)
CaughtByHarness(call) == call.k \in {"ret", "raise"}

\* A document written to stdout: a JSON list of outcome records, a JSON
\* scalar, or text that is not JSON.
ListDoc(items) == [shape |-> "list", items |-> items]
ScalarDoc == [shape |-> "scalar", items |-> <<>>]
TextDoc == [shape |-> "text", items |-> <<>>]

\* The candidate writes text to stdout: text after text is still text.
WriteText(out) ==
  IF out # <<>> /\ out[Len(out)] = TextDoc THEN out ELSE Append(out, TextDoc)

\* json.dumps(results) of the harness's last line
DumpResults(results) ==
  ListDoc([i \in DOMAIN results |->
             [test_id |-> Lit("int", results[i].test_id),
              passed |-> JsonDumps(BoolV(results[i].passed)),
              actual_output |-> JsonDumps(results[i].actual_output),
              error |-> JsonDumps(results[i].error)]])

ResultsSerializable(results) ==
  \A i \in DOMAIN results : Serializable(results[i].actual_output)

\* Documents a candidate can print itself: a scalar, or a list of k records
\* claiming success.
Forged(n) ==
  {ScalarDoc} \cup
  {DumpResults([i \in 1..k |-> Outcome(DbId(i), TRUE, NoneV, NoneV)]) :
     k \in 0..(n + 1)}

\* json.loads(result.stdout.strip()): the whole of stdout must be one JSON
\* document.  "JSONDecodeError" otherwise.
DecodeError == [shape |-> "JSONDecodeError", items |-> <<>>]
LoadStdout(out) ==
  IF Len(out) = 1 /\ out[1].shape # "text"
    THEN [shape |-> out[1].shape,
          items |-> [i \in DOMAIN out[1].items |->
                       Outcome(JsonLoads(out[1].items[i].test_id).v,
                               JsonLoads(out[1].items[i].passed) = BoolV(TRUE),
                               JsonLoads(out[1].items[i].actual_output),
                               JsonLoads(out[1].items[i].error))]]
    ELSE DecodeError

\* Captured text is a sequence of tokens; a file path is one token.
Whitespace == {" ", "\n"}

\* str.strip(): leading and trailing whitespace removed
RECURSIVE Strip(_)
Strip(text) ==
  IF text = <<>> THEN <<>>
  ELSE IF Head(text) \in Whitespace THEN Strip(Tail(text))
  ELSE IF text[Len(text)] \in Whitespace
    THEN Strip(SubSeq(text, 1, Len(text) - 1))
  ELSE text

\* the replacement applied to the first occurrence only
Redact_FirstOnly(text, path) ==
  [i \in DOMAIN text |->
     IF text[i] = path /\ \A j \in 1..(i - 1) : text[j] # path
       THEN "<user_code>" ELSE text[i]]

\* `error_msg.replace(tmp_file_path, "<user_code>")`
Redact(text, path) ==
  [i \in DOMAIN text |-> IF text[i] = path THEN "<user_code>" ELSE text[i]]

\* The traceback Python prints for an uncaught exception in the harness file.
Traceback(path, what) == <<"Traceback: File ", path, what, "\n">>

\* What a candidate that leaves with a non-zero status may have written to
\* stderr itself: nothing, blank lines, or text naming its own file
\* (`__file__`) more than once.
StderrWrites(path) == {<<>>, <<"\n">>, <<path, " and ", path, "\n">>}

\* ----------------------------------------------------------- state, cont.
vars == <<settings, executor, pc, running, req, tmp, fs, child, exres, resp,
          spawned, scanlog, categories, session>>

\* what the category service leaves alone
execvars == <<settings, executor, pc, running, req, tmp, fs, child, exres,
              resp, spawned, scanlog>>

NoReq == [code |-> <<>>, exercise |-> NoExercise]

\* `calls` is the record of what the candidate's function did at each call
\* the loop made, in order; `garbled` says that bytes which are not UTF-8
\* were written to a captured stream; `shadowed` that the harness's
\* `import json` finds a json.py beside the harness file.
NoChild ==
  [st |-> "none", phase |-> "module", cases |-> <<>>, calls |-> <<>>,
   results |-> <<>>, out |-> <<>>, err |-> <<>>, rc |-> 0, hung |-> FALSE,
   garbled |-> FALSE, shadowed |-> FALSE, faithful |-> TRUE]

\* the tuple (success, results, error_message), or an exception
Result(success, results, error) ==
  [raised |-> FALSE, success |-> success, results |-> results, error |-> error]
Failure(error) == Result(FALSE, ListDoc(<<>>), error)
Raised == [raised |-> TRUE, success |-> FALSE, results |-> ListDoc(<<>>),
           error |-> NoMsg]
NoResult == [raised |-> FALSE, success |-> FALSE, results |-> ListDoc(<<>>),
             error |-> Msg("unset", <<>>, 0)]

\* `error=None` of a response
NoneMsg == Msg("None", <<>>, 0)

Response(status, success, total, passed, results, error) ==
  [status |-> status, success |-> success, total_tests |-> total,
   passed_tests |-> passed, results |-> results, error |-> error]
HttpError(status) == Response(status, FALSE, 0, 0, <<>>, NoneMsg)
NoResp == HttpError(0)

\* ------------------------------------------------------------- categories
\* Names a client can send; "" is a str like any other and is falsy.
CategoryNames == {"", "lists"}

\* A category request before it arrives: op is "create" or "update", loaded
\* is the name of the row as update_category read it, status the answer.
NoSession == [pc |-> "idle", op |-> "", category_id |-> 0, name |-> "",
              loaded |-> "", status |-> 0]

\* select(Category).where(Category.name == name): is there such a row
get_category_by_name(name) ==
  \E i \in DOMAIN categories : categories[i] = name

\* The unique index on categories.name refuses the write of `name` to row
\* `id` (0: a new row) when another row holds that name.
UniqueViolation(id, name) ==
  \E i \in DOMAIN categories : i # id /\ categories[i] = name

\* The server as constructed, whatever the settings.
Constructed ==
  /\ executor = [timeout |-> settings.code_execution_timeout,
                 BLACKLIST |-> BLACKLIST]
  /\ pc = [r \in Req |-> "idle"]
  /\ running = 0
  /\ req = [r \in Req |-> NoReq]
  /\ tmp = [r \in Req |-> ""]
  /\ fs = {}
  /\ child = [r \in Req |-> NoChild]
  /\ exres = [r \in Req |-> NoResult]
  /\ resp = [r \in Req |-> NoResp]
  /\ spawned = [r \in Req |-> 0]
  /\ scanlog = <<>>
  /\ categories = <<>>
  /\ session = [c \in Client |-> NoSession]

Init ==
  /\ settings \in [code_execution_timeout : {code_execution_timeout},
                    max_concurrent_executions : 1..MaxWidth]
  /\ Constructed

\* The server started with the default of max_concurrent_executions.
WideInit ==
  /\ settings = [code_execution_timeout |-> code_execution_timeout,
                  max_concurrent_executions |-> max_concurrent_executions]
  /\ Constructed

\* ------------------------------------------------------------ the handler
\* A client sends POST /execute; the handler starts and awaits the query.
Arrive(r) ==
  /\ pc[r] = "idle"
  /\ pc' = [pc EXCEPT ![r] = "await_db"]
  /\ UNCHANGED <<catvars, settings, executor, scanlog, running, req, tmp, fs, child,
                 exres, resp, spawned>>

\* a handler that gives the loop away once it has started its child
LoopFree_Threaded ==
  IF running = 0 THEN TRUE ELSE child[running] = [NoChild EXCEPT !.st = "running"]

\* execute_code is a coroutine and calls code_executor.execute without
\* awaiting anything: from the query's result to the response the handler
\* keeps the event loop, and no other handler runs.
LoopFree == running = 0

\* a handler without the test for an exercise that has no test cases
Lookup_NoTestsPass(r) ==
  /\ pc[r] = "await_db"
  /\ LoopFree
  /\ \E ex \in Exercises \cup {NoExercise}, code \in Sources :
       IF ~ex.found
         THEN /\ resp' = [resp EXCEPT ![r] = HttpError(404)]
              /\ pc' = [pc EXCEPT ![r] = "responded"]
              /\ UNCHANGED req
       ELSE /\ req' = [req EXCEPT ![r] = [code |-> code, exercise |-> ex]]
            /\ pc' = [pc EXCEPT ![r] = "scan"]
            /\ UNCHANGED resp
  /\ running' = r
  /\ UNCHANGED <<catvars, settings, executor, scanlog, tmp, fs, child, exres, spawned>>

\* `await db.execute(query)` completes; the 404 and 400 answers.  The
\* request's body is read here for the first time, so it is chosen here;
\* a request answered 400 keeps the exercise it resolved, and nothing reads
\* its code.
Lookup(r) ==
  /\ pc[r] = "await_db"
  /\ LoopFree
  /\ \E ex \in Exercises \cup {NoExercise}, code \in Sources :
       IF ~ex.found
         THEN /\ resp' = [resp EXCEPT ![r] = HttpError(404)]
              /\ pc' = [pc EXCEPT ![r] = "responded"]
              /\ UNCHANGED req
       ELSE IF ex.test_cases = <<>>
         THEN /\ resp' = [resp EXCEPT ![r] = HttpError(400)]
              /\ pc' = [pc EXCEPT ![r] = "responded"]
              /\ req' = [req EXCEPT ![r] = [code |-> <<>>, exercise |-> ex]]
       ELSE /\ req' = [req EXCEPT ![r] = [code |-> code, exercise |-> ex]]
            /\ pc' = [pc EXCEPT ![r] = "scan"]
            /\ UNCHANGED resp
  /\ running' = r
  /\ UNCHANGED <<catvars, settings, executor, scanlog, tmp, fs, child, exres, spawned>>

\* Sources whose scans the history `scanlog` records.
ProbeSources ==
  { <<"E","V","A","L","(">> \o <<"d","e","f"," ">> \o FunctionName,
    <<"d","e","f"," ">> \o FunctionName }

\* a scan that uses its deny-list up, as iterating a generator would
ScannerLeaves_Exhausted == [executor EXCEPT !.BLACKLIST = <<>>]

\* The executor's attributes after a scan: _contains_blacklisted_code
\* assigns nothing but locals.
ScannerLeaves == executor

\* the two checks of execute in the other order
Scan_EntryFirst(r) ==
  /\ pc[r] = "scan" /\ running = r
  /\ LET code == req[r].code
         verdict == _contains_blacklisted_code(code)
     IN  IF EntryPointMissing(code, req[r].exercise.function_name)
           THEN /\ exres' = [exres EXCEPT ![r] =
                      Failure(Msg("Function '{}' not found in code",
                                  req[r].exercise.function_name, 0))]
                /\ pc' = [pc EXCEPT ![r] = "route"]
         ELSE IF verdict[1]
           THEN /\ exres' = [exres EXCEPT ![r] = Failure(verdict[2])]
                /\ pc' = [pc EXCEPT ![r] = "route"]
         ELSE /\ pc' = [pc EXCEPT ![r] = "mktemp"]
              /\ UNCHANGED exres
  /\ executor' = ScannerLeaves
  /\ scanlog' = IF req[r].code \in ProbeSources
                  THEN Append(scanlog,
                              [code |-> req[r].code,
                               verdict |-> _contains_blacklisted_code(req[r].code)])
                  ELSE scanlog
  /\ UNCHANGED <<catvars, settings, running, req, tmp, fs, child, resp, spawned>>

\* execute, lines 109-119: the two checks before anything is created
Scan(r) ==
  /\ pc[r] = "scan" /\ running = r
  /\ LET code == req[r].code
         verdict == _contains_blacklisted_code(code)
     IN  IF verdict[1]
           THEN /\ exres' = [exres EXCEPT ![r] = Failure(verdict[2])]
                /\ pc' = [pc EXCEPT ![r] = "route"]
         ELSE IF EntryPointMissing(code, req[r].exercise.function_name)
           THEN /\ exres' = [exres EXCEPT ![r] =
                      Failure(Msg("Function '{}' not found in code",
                                  req[r].exercise.function_name, 0))]
                /\ pc' = [pc EXCEPT ![r] = "route"]
         ELSE /\ pc' = [pc EXCEPT ![r] = "mktemp"]
              /\ UNCHANGED exres
  /\ executor' = ScannerLeaves
  /\ scanlog' = IF req[r].code \in ProbeSources
                  THEN Append(scanlog,
                              [code |-> req[r].code,
                               verdict |-> _contains_blacklisted_code(req[r].code)])
                  ELSE scanlog
  /\ UNCHANGED <<catvars, settings, running, req, tmp, fs, child, resp, spawned>>

\* execute, lines 122-124: the file is created and written before the try
\* statement.  Creation can fail (no file); the write or the close can fail
\* (the file stays, delete=False); either exception leaves execute.
CreateTemp(r) ==
  /\ pc[r] = "mktemp" /\ running = r
  /\ \/ /\ exres' = [exres EXCEPT ![r] = Raised]
        /\ pc' = [pc EXCEPT ![r] = "route"]
        /\ UNCHANGED <<tmp, fs>>
     \/ \E p \in FreshPath(fs) :
          /\ tmp' = [tmp EXCEPT ![r] = p]
          /\ fs' = fs \cup {p}
          /\ \/ /\ pc' = [pc EXCEPT ![r] = "spawn"]
                /\ UNCHANGED exres
             \/ /\ exres' = [exres EXCEPT ![r] = Raised]
                /\ pc' = [pc EXCEPT ![r] = "route"]
  /\ UNCHANGED <<catvars, settings, executor, scanlog, running, req, child, resp,
                 spawned>>

\* The requests that hold a slot of an admission gate.  execute goes from
\* its checks to the file and to subprocess.run; nothing acquires or
\* releases anything, and settings.max_concurrent_executions is never read.
GateHolders == {}

\* `python3 <file>` puts the file's directory, the temporary directory,
\* first on the module search path: a json.py there is what the harness's
\* `import json` loads.
ShadowModule == "/tmp/json.py"

\* subprocess.run starts python3 on the file, or raises (no interpreter, no
\* process slot): `except Exception` turns that into a result
Spawn(r) ==
  /\ pc[r] = "spawn" /\ running = r
  /\ \/ /\ child' = [child EXCEPT ![r] =
               [NoChild EXCEPT !.st = "running",
                               !.shadowed = ShadowModule \in fs]]
        /\ spawned' = [spawned EXCEPT ![r] = @ + 1]
        /\ pc' = [pc EXCEPT ![r] = "wait"]
        /\ UNCHANGED exres
     \/ /\ exres' = [exres EXCEPT ![r] =
               Failure(Msg("Execution error: ", <<"OSError">>, 0))]
        /\ pc' = [pc EXCEPT ![r] = "finally"]
        /\ UNCHANGED <<child, spawned>>
  /\ UNCHANGED <<catvars, settings, executor, scanlog, running, req, tmp, fs, resp>>

\* ------------------------------------------------------ the child process
\* The child runs while its parent, which holds the event loop, is blocked
\* in subprocess.run.
\* The child exits with code rc, having written err to stderr.
Exit(c, rc, err) == [c EXCEPT !.st = "exited", !.rc = rc, !.err = err]

NumTests(r) == Len(req[r].exercise.test_cases)

\* The harness up to its `for` statement: the candidate's source runs at
\* module level, then the embedded list literal is evaluated.  The source
\* may run through (binding the names true, false, null or not, printing or
\* not), fail (SyntaxError, an uncaught exception), leave with SystemExit
\* after printing what it likes, or never finish.
ChildModule(r) ==
  /\ pc[r] = "wait" /\ running = r /\ child[r].st = "running"
  /\ child[r].phase = "module" /\ ~child[r].hung /\ ~child[r].shadowed
  /\ LET c == child[r]
         lits == DumpCases(req[r].exercise.test_cases)
     IN  \/ \E bound \in BOOLEAN, prints \in BOOLEAN :
              LET c1 == [c EXCEPT !.out = IF prints THEN WriteText(@) ELSE @]
              IN  child' = [child EXCEPT ![r] =
                    IF LiteralRaises(lits, bound)
                      THEN Exit(c1, 1, Traceback(tmp[r], "NameError"))
                      ELSE [c1 EXCEPT !.phase = "tests",
                                      !.cases = EvalCases(lits, bound)]]
         \/ child' = [child EXCEPT ![r] =
               Exit([c EXCEPT !.faithful = FALSE], 1,
                    Traceback(tmp[r], "SyntaxError"))]
         \/ \E rc \in {0, 1} :
              child' = [child EXCEPT ![r] =
                Exit([c EXCEPT !.faithful = FALSE], rc, <<>>)]
         \/ \E err \in StderrWrites(tmp[r]) \ {<<>>} :
              child' = [child EXCEPT ![r] =
                Exit([c EXCEPT !.faithful = FALSE], 1, err)]
         \/ \E rc \in {0, 1} :
              child' = [child EXCEPT ![r] =
                Exit([c EXCEPT !.faithful = FALSE, !.garbled = TRUE], rc, <<>>)]
         \/ \E d \in Forged(Len(lits)) :
              child' = [child EXCEPT ![r] =
                Exit([c EXCEPT !.faithful = FALSE, !.out = <<d>>], 0, <<>>)]
         \/ child' = [child EXCEPT ![r] =
               [c EXCEPT !.faithful = FALSE, !.hung = TRUE]]
  /\ UNCHANGED <<catvars, settings, executor, scanlog, pc, running, req, tmp, fs,
                 exres, resp, spawned>>

\* The candidate's source, at module level, writes a json.py into the
\* directory of its own file (pathlib is not on the deny-list) and leaves
\* with status 0.  Nothing removes that file.
ChildPlant(r) ==
  /\ pc[r] = "wait" /\ running = r /\ child[r].st = "running"
  /\ child[r].phase = "module" /\ ~child[r].hung /\ ~child[r].shadowed
  /\ fs' = fs \cup {ShadowModule}
  /\ child' = [child EXCEPT ![r] =
        Exit([child[r] EXCEPT !.faithful = FALSE], 0, <<>>)]
  /\ UNCHANGED <<catvars, settings, executor, scanlog, pc, running, req, tmp, exres,
                 resp, spawned>>

\* The harness of a later request imports the json.py it finds: the import
\* raises, or the module's dumps makes the harness print what it likes.
ChildShadowed(r) ==
  /\ pc[r] = "wait" /\ running = r /\ child[r].st = "running"
  /\ child[r].phase = "module" /\ ~child[r].hung /\ child[r].shadowed
  /\ LET c == [child[r] EXCEPT !.faithful = FALSE]
     IN  \/ child' = [child EXCEPT ![r] =
               Exit(c, 1, <<"Traceback: File ", tmp[r], " File ", ShadowModule,
                            "RuntimeError", "\n">>)]
         \/ \E d \in Forged(NumTests(r)) :
              child' = [child EXCEPT ![r] = Exit([c EXCEPT !.out = <<d>>], 0, <<>>)]
  /\ UNCHANGED <<catvars, settings, executor, scanlog, pc, running, req, tmp, fs,
                 exres, resp, spawned>>

\* One iteration of the harness's loop, lines 70-93.
ChildTest(r) ==
  /\ pc[r] = "wait" /\ running = r /\ child[r].st = "running"
  /\ child[r].phase = "tests" /\ ~child[r].hung
  /\ Len(child[r].results) < Len(child[r].cases)
  /\ LET c == child[r]
         tc == c.cases[Len(c.results) + 1]
     IN  \E call \in Calls(tc) :
           LET c1 == [c EXCEPT
                        !.calls = Append(@, [k |-> call.k, v |-> call.v]),
                        !.out = IF call.prints THEN WriteText(@) ELSE @,
                        !.faithful = @ /\ call.k = "ret"
                                       /\ call.v = tc.expected_output]
           IN  child' = [child EXCEPT ![r] =
                 IF CaughtByHarness(call)
                   THEN [c1 EXCEPT !.results = Append(@, TestBody(tc, call))]
                 ELSE IF call.k = "exit"
                   THEN Exit(c1, call.v.v, <<>>)
                 ELSE [c1 EXCEPT !.hung = TRUE]]
  /\ UNCHANGED <<catvars, settings, executor, scanlog, pc, running, req, tmp, fs,
                 exres, resp, spawned>>

\* The harness's last line, `print(json.dumps(results))`, and the exit.
ChildFinish(r) ==
  /\ pc[r] = "wait" /\ running = r /\ child[r].st = "running"
  /\ child[r].phase = "tests" /\ ~child[r].hung
  /\ Len(child[r].results) = Len(child[r].cases)
  /\ LET c == child[r]
     IN  child' = [child EXCEPT ![r] =
           IF ResultsSerializable(c.results)
             THEN Exit([c EXCEPT !.out = Append(@, DumpResults(c.results))],
                       0, <<>>)
             ELSE Exit(c, 1, Traceback(tmp[r], "TypeError"))]
  /\ UNCHANGED <<catvars, settings, executor, scanlog, pc, running, req, tmp, fs,
                 exres, resp, spawned>>

\* ------------------------------------------------------ execute, the rest
\* lines 145-157: what execute makes of a child that exited
Decode(c, path) ==
  IF c.rc # 0
    THEN IF Strip(c.err) = <<>>
           THEN Failure(Msg("Execution failed", <<>>, 0))
           ELSE Failure(Msg("", Redact(Strip(c.err), path), 0))
  ELSE IF LoadStdout(c.out) = DecodeError
    THEN Failure(Msg("Failed to parse execution results", <<>>, 0))
  ELSE Result(TRUE, LoadStdout(c.out), NoMsg)

\* The child has exited: subprocess.run decodes the captured streams
\* (text=True) and returns, or the decoding raises UnicodeDecodeError, which
\* `except Exception` at line 162 turns into a result.
RunReturns(r) ==
  /\ pc[r] = "wait" /\ running = r
  /\ child[r].st = "exited"
  /\ exres' = [exres EXCEPT ![r] =
        IF child[r].garbled
          THEN Failure(Msg("Execution error: ", <<"UnicodeDecodeError">>, 0))
          ELSE Decode(child[r], tmp[r])]
  /\ pc' = [pc EXCEPT ![r] = "finally"]
  /\ UNCHANGED <<catvars, settings, executor, scanlog, running, req, tmp, fs, child,
                 resp, spawned>>

\* the deadline passing with the child killed and the harness launched again
Timeout_Retry(r) ==
  /\ pc[r] = "wait" /\ running = r
  /\ child[r].st = "running"
  /\ child' = [child EXCEPT ![r].st = "killed"]
  /\ pc' = [pc EXCEPT ![r] = "spawn"]
  /\ UNCHANGED <<catvars, settings, executor, scanlog, running, req, tmp, fs, exres,
                 resp, spawned>>

\* the deadline passing with the child left running and its output returned
Timeout_NoKill(r) ==
  /\ pc[r] = "wait" /\ running = r
  /\ child[r].st = "running"
  /\ exres' = [exres EXCEPT ![r] =
        IF LoadStdout(child[r].out) = DecodeError
          THEN Failure(Msg("Execution timed out (limit: {}s)", <<>>,
                           executor.timeout))
          ELSE Result(TRUE, LoadStdout(child[r].out), NoMsg)]
  /\ pc' = [pc EXCEPT ![r] = "finally"]
  /\ UNCHANGED <<catvars, settings, executor, scanlog, running, req, tmp, fs, child,
                 resp, spawned>>

\* The deadline passes with the child still running: subprocess.run kills
\* it, waits for it and raises TimeoutExpired, which line 159 catches.
Timeout(r) ==
  /\ pc[r] = "wait" /\ running = r
  /\ child[r].st = "running"
  /\ child' = [child EXCEPT ![r].st = "killed"]
  /\ exres' = [exres EXCEPT ![r] =
        Failure(Msg("Execution timed out (limit: {}s)", <<>>,
                    executor.timeout))]
  /\ pc' = [pc EXCEPT ![r] = "finally"]
  /\ UNCHANGED <<catvars, settings, executor, scanlog, running, req, tmp, fs, resp,
                 spawned>>

\* lines 165-168: the file is unlinked and execute returns
Finally(r) ==
  /\ pc[r] = "finally" /\ running = r
  /\ fs' = fs \ {tmp[r]}
  /\ pc' = [pc EXCEPT ![r] = "route"]
  /\ UNCHANGED <<catvars, settings, executor, scanlog, running, req, tmp, child, exres,
                 resp, spawned>>

\* ------------------------------------------------- the handler, continued
\* One TestResult: the outcome joined with the test case at its index.
TestResult(o, tc) ==
  [test_id |-> o.test_id, passed |-> o.passed, input_data |-> tc.input_data,
   expected_output |-> tc.expected_output, actual_output |-> o.actual_output,
   error |-> o.error]

\* the count of all outcomes, passed or not
PassedCount_Length(items) == Len(items)

\* `passed_count += 1` for each outcome whose "passed" is true
PassedCount(items) == Cardinality({i \in DOMAIN items : items[i].passed})

\* the response with execute's error string passed on in every case
BuildResponse_ErrorAlways(x, test_cases) ==
  LET n == Len(test_cases)
      items == x.results.items
  IN  IF x.raised THEN HttpError(500)
      ELSE IF ~x.success THEN Response(200, FALSE, n, 0, <<>>, x.error)
      ELSE IF x.results.shape # "list" \/ Len(items) > n THEN HttpError(500)
      ELSE Response(200, PassedCount(items) = n, n, PassedCount(items),
                    [i \in DOMAIN items |-> TestResult(items[i], test_cases[i])],
                    x.error)

\* execute_code, lines 61-101: the response built from execute's tuple.  An
\* exception out of execute, a result that is no list (enumerate raises) or
\* one longer than the test cases (IndexError) is answered with 500.
BuildResponse(x, test_cases) ==
  LET n == Len(test_cases)
      items == x.results.items
  IN  IF x.raised THEN HttpError(500)
      ELSE IF ~x.success THEN Response(200, FALSE, n, 0, <<>>, x.error)
      ELSE IF x.results.shape # "list" \/ Len(items) > n THEN HttpError(500)
      ELSE Response(200, PassedCount(items) = n, n, PassedCount(items),
                    [i \in DOMAIN items |-> TestResult(items[i], test_cases[i])],
                    NoneMsg)

Route(r) ==
  /\ pc[r] = "route" /\ running = r
  /\ resp' = [resp EXCEPT ![r] =
                BuildResponse(exres[r], req[r].exercise.test_cases)]
  /\ pc' = [pc EXCEPT ![r] = "responded"]
  /\ UNCHANGED <<catvars, settings, executor, scanlog, running, req, tmp, fs, child,
                 exres, spawned>>

\* The handler returns its response (or the exception) to the framework
\* and the event loop is free again; the call's values are garbage.
Complete(r) ==
  /\ pc[r] = "responded" /\ running = r
  /\ running' = 0
  /\ pc' = [pc EXCEPT ![r] = "done"]
  /\ req' = [req EXCEPT ![r] = NoReq]
  /\ tmp' = [tmp EXCEPT ![r] = ""]
  /\ child' = [child EXCEPT ![r] = NoChild]
  /\ exres' = [exres EXCEPT ![r] = NoResult]
  /\ resp' = [resp EXCEPT ![r] = NoResp]
  /\ spawned' = [spawned EXCEPT ![r] = 0]
  /\ UNCHANGED <<catvars, settings, executor, scanlog, fs>>

Step(r) ==
  \/ Arrive(r) \/ Lookup(r) \/ Scan(r) \/ CreateTemp(r) \/ Spawn(r)
  \/ ChildModule(r) \/ ChildPlant(r) \/ ChildShadowed(r)
  \/ ChildTest(r) \/ ChildFinish(r)
  \/ RunReturns(r) \/ Timeout(r) \/ Finally(r) \/ Route(r) \/ Complete(r)

Next == \E r \in Req : Step(r)

Spec == Init /\ [][Next]_vars

\* The operating system runs the child, the deadline of subprocess.run
\* expires, and a handler that holds the event loop runs on.
FairSpec == Spec /\ WF_vars(Next)

\* The same server under the default settings.
WideSpec == WideInit /\ [][Next]_vars

\* ------------------------------------------------- the category service
\* Every await of the service is a point where another request can run;
\* each request has a session and a connection of its own.
Answer(c, status) == [session EXCEPT ![c].pc = "done", ![c].status = status]

\* POST /categories/ or PUT /categories/{category_id} arrives.
CategoryArrive(c) ==
  /\ session[c].pc = "idle"
  /\ \E name \in CategoryNames :
       \/ session' = [session EXCEPT ![c] =
             [NoSession EXCEPT !.pc = "check", !.op = "create", !.name = name]]
       \/ \E id \in 1..MaxCategories :
            session' = [session EXCEPT ![c] =
              [NoSession EXCEPT !.pc = "get", !.op = "update",
                                !.category_id = id, !.name = name]]
  /\ UNCHANGED <<execvars, categories>>

\* create_category, the duplicate check
create_category_check(c) ==
  /\ session[c].pc = "check" /\ session[c].op = "create"
  /\ IF get_category_by_name(session[c].name)
       THEN session' = Answer(c, 400)
       ELSE session' = [session EXCEPT ![c].pc = "commit"]
  /\ UNCHANGED <<execvars, categories>>

\* create_category, db.add and db.commit: the INSERT meets the unique
\* index; IntegrityError is no HTTPException and nothing handles it.
create_category_commit(c) ==
  /\ session[c].pc = "commit" /\ session[c].op = "create"
  /\ IF UniqueViolation(0, session[c].name)
       THEN /\ session' = Answer(c, 500)
            /\ UNCHANGED categories
       ELSE /\ Len(categories) < MaxCategories
            /\ categories' = Append(categories, session[c].name)
            /\ session' = Answer(c, 201)
  /\ UNCHANGED execvars

\* update_category, get_category_by_id and the test that decides on a check
update_category_get(c) ==
  /\ session[c].pc = "get"
  /\ LET id == session[c].category_id
          name == session[c].name
     IN IF id \notin DOMAIN categories
          THEN session' = Answer(c, 404)
          ELSE session' = [session EXCEPT
                 ![c].loaded = categories[id],
                 ![c].pc = IF name # "" /\ name # categories[id]
                             THEN "check" ELSE "commit"]
  /\ UNCHANGED <<execvars, categories>>

\* update_category, the duplicate check
update_category_check(c) ==
  /\ session[c].pc = "check" /\ session[c].op = "update"
  /\ IF get_category_by_name(session[c].name)
       THEN session' = Answer(c, 400)
       ELSE session' = [session EXCEPT ![c].pc = "commit"]
  /\ UNCHANGED <<execvars, categories>>

\* update_category, setattr and db.commit: an attribute set to the value
\* it was loaded with is not written; an UPDATE meets the unique index.
update_category_commit(c) ==
  /\ session[c].pc = "commit" /\ session[c].op = "update"
  /\ LET id == session[c].category_id
          name == session[c].name
     IN IF name = session[c].loaded
          THEN /\ session' = Answer(c, 200)
               /\ UNCHANGED categories
          ELSE IF UniqueViolation(id, name)
                 THEN /\ session' = Answer(c, 500)
                      /\ UNCHANGED categories
                 ELSE /\ categories' = [categories EXCEPT ![id] = name]
                      /\ session' = Answer(c, 200)
  /\ UNCHANGED execvars

\* The answer is sent; the client may send another request.
CategoryComplete(c) ==
  /\ session[c].pc = "done"
  /\ session' = [session EXCEPT ![c] = NoSession]
  /\ UNCHANGED <<execvars, categories>>

CategoryStep(c) ==
  \/ CategoryArrive(c)
  \/ create_category_check(c) \/ create_category_commit(c)
  \/ update_category_get(c) \/ update_category_check(c)
  \/ update_category_commit(c)
  \/ CategoryComplete(c)

CatNext == \E c \in Client : CategoryStep(c)

CatSpec == Init /\ [][CatNext]_vars

\* ----------------------------------------------------------------- claims
\* the handler of r called execute: its exercise has test cases
Engaged(r) == req[r].exercise.test_cases # <<>>
InCall(r) == pc[r] \in {"scan", "mktemp", "spawn", "wait", "finally", "route",
                        "responded"} /\ Engaged(r)
Returned(r) == pc[r] \in {"route", "responded"} /\ Engaged(r)
Answered(r) == pc[r] = "responded" /\ Engaged(r) /\ resp[r].status = 200
Alive == {r \in Req : child[r].st = "running"}

\* C1: whatever the child does, execute's outcomes and the response's
\* results are either one per test case, or empty with an error set.
C1_OutcomesAligned ==
  \A r \in Req :
    /\ (Returned(r) /\ ~exres[r].raised) =>
         \/ /\ exres[r].results.shape = "list"
            /\ Len(exres[r].results.items) = NumTests(r)
         \/ /\ exres[r].results = ListDoc(<<>>)
            /\ exres[r].error # NoMsg
    /\ Answered(r) =>
         \/ Len(resp[r].results) = NumTests(r)
         \/ resp[r].results = <<>> /\ resp[r].error # NoneMsg

\* C2: the response's success flag is true exactly when no request-level
\* error is present and every outcome passed.
C2_SuccessIffAllPassed ==
  \A r \in Req :
    Answered(r) =>
      (resp[r].success <=>
         /\ resp[r].error = NoneMsg
         /\ \A i \in DOMAIN resp[r].results : resp[r].results[i].passed)

\* some deny-list entry occurs in the code, letter case ignored
HasDeniedToken(code) ==
  \E n \in 1..Len(BLACKLIST) :
    \E i \in 0..(Len(code) - Len(BLACKLIST[n])) :
      \A j \in 1..Len(BLACKLIST[n]) :
        LowerChar(code[i + j]) = LowerChar(BLACKLIST[n][j])

\* C3: a candidate containing a deny-listed token in any letter case gets
\* no file and no child process, and execute returns (False, [], an error
\* naming a deny-list entry).
C3_DeniedNeverRuns ==
  \A r \in Req :
    (InCall(r) /\ HasDeniedToken(req[r].code)) =>
      /\ pc[r] \in {"scan", "route", "responded"}
      /\ child[r].st = "none" /\ spawned[r] = 0 /\ tmp[r] = ""
      /\ Returned(r) =>
           /\ ~exres[r].raised /\ ~exres[r].success
           /\ exres[r].results = ListDoc(<<>>)
           /\ exres[r].error.kind = "Prohibited statement found: "
           /\ \E n \in 1..Len(BLACKLIST) : exres[r].error.text = BLACKLIST[n]

C3_Witness ==
  \E r \in Req :
    /\ Returned(r) /\ HasDeniedToken(req[r].code)
    /\ req[r].code # Lower(req[r].code)
    /\ ~EntryPointMissing(req[r].code, req[r].exercise.function_name)
    /\ exres[r].error.kind = "Prohibited statement found: "

\* C4: with more requests in flight than max_concurrent_executions, never
\* more than max_concurrent_executions children are alive, and a child is
\* started only while fewer than that many are alive.
C4_ChildrenBounded ==
  /\ [](Cardinality(Alive) <= settings.max_concurrent_executions)
  /\ [][\A r \in Req :
          (child[r].st = "none" /\ child'[r].st = "running") =>
            Cardinality(Alive) < settings.max_concurrent_executions]_vars

C4_Witness ==
  /\ NumReq > settings.max_concurrent_executions
  /\ \A r \in Req : pc[r] \notin {"idle", "done"}
  /\ Cardinality(Alive) = settings.max_concurrent_executions
  /\ \E q \in Req : pc[q] = "await_db"

\* C5: past the scan a request holds a gate slot until execute returns.
C5_SlotHeldPastScan ==
  \A r \in Req :
    pc[r] \in {"mktemp", "spawn", "wait", "finally"} => r \in GateHolders

TimeoutResult ==
  Failure(Msg("Execution timed out (limit: {}s)", <<>>,
              settings.code_execution_timeout))

\* C6: a child still running at the deadline is killed, execute returns
\* the timeout result with no outcomes, no child of the request is running
\* once execute has returned, and a call whose child never exits returns.
C6_TimeoutKills ==
  /\ [](\A r \in Req :
          /\ Returned(r) => child[r].st # "running"
          /\ (Returned(r) /\ child[r].hung) =>
               child[r].st = "killed" /\ exres[r] = TimeoutResult
          /\ (pc[r] \in {"finally", "route", "responded"}
                /\ child[r].st = "killed") => exres[r] = TimeoutResult)
  /\ \A r \in Req :
       (child[r].st = "running" /\ child[r].hung)
          ~> (pc[r] = "route" /\ child[r].st = "killed")

C6_Witness ==
  \E r \in Req :
    /\ pc[r] = "route" /\ child[r].hung /\ child[r].st = "killed"
    /\ child[r].results # <<>>
    /\ exres[r] = TimeoutResult

\* C7: once the loop over the tests has started, every test gets an
\* outcome whatever the candidate's call raises: the child does not exit
\* with a test left without one.
C7_EveryTestRecorded ==
  \A r \in Req :
    (child[r].st = "exited" /\ child[r].phase = "tests") =>
      Len(child[r].results) = Len(child[r].cases)

\* C8: once execute has returned or raised, the file it created is gone.
C8_TempFileDeleted ==
  \A r \in Req : Returned(r) => tmp[r] \notin fs

\* C9: execute never raises; a fault inside it becomes an error result.
C9_NoExceptionEscapes ==
  \A r \in Req : Returned(r) => ~exres[r].raised

\* C10: a candidate that defines the entry point, ran to the end, printed
\* or not, and returned the expected value on every call gets success with
\* every test passed.
C10_CorrectCandidatePasses ==
  \A r \in Req :
    (pc[r] = "responded" /\ Engaged(r)
       /\ req[r].code = <<"d","e","f"," ">> \o req[r].exercise.function_name
       /\ child[r].st = "exited" /\ child[r].faithful) =>
      /\ resp[r].status = 200 /\ resp[r].success
      /\ resp[r].passed_tests = resp[r].total_tests

\* the harness printed its own list and execute decoded it
HarnessReported(r) ==
  /\ Returned(r) /\ ~exres[r].raised /\ exres[r].success
  /\ child[r].st = "exited" /\ child[r].phase = "tests"
  /\ Len(child[r].results) = Len(child[r].cases)

\* the outcome the claim prescribes for a call that returned v on test tc
ReturnOutcome(tc, v) == Outcome(tc.id, PyEq(v, tc.expected_output), v, NoneV)

IdentChars ==
  {UpperCase[i] : i \in 1..Len(UpperCase)} \cup
  {LowerCase[i] : i \in 1..Len(LowerCase)} \cup
  {"0", "1", "2", "3", "4", "5", "6", "7", "8", "9", "_"}

\* the code holds `def name` with the name ending there: a definition of a
\* function called exactly `name`
DefinesFunction(code, name) ==
  LET pat == <<"d","e","f"," ">> \o name
  IN  \E i \in 0..(Len(code) - Len(pat)) :
        /\ \A j \in 1..Len(pat) : code[i + j] = pat[j]
        /\ (i + Len(pat) < Len(code)) => code[i + Len(pat) + 1] \notin IdentChars

MissingEntryPoint(r) ==
  Failure(Msg("Function '{}' not found in code",
              req[r].exercise.function_name, 0))

\* C12: a candidate with no deny-listed token and no definition of a
\* function named exactly as the entry point (a longer name that starts
\* with it included) gets no file and no child, and execute returns the
\* missing-entry-point failure.
C12_MissingEntryPointReported ==
  \A r \in Req :
    (InCall(r) /\ ~HasDeniedToken(req[r].code)
       /\ ~DefinesFunction(req[r].code, req[r].exercise.function_name)) =>
      /\ pc[r] \in {"scan", "route", "responded"}
      /\ child[r].st = "none" /\ spawned[r] = 0 /\ tmp[r] = ""
      /\ Returned(r) => exres[r] = MissingEntryPoint(r)

\* C13: every outcome the harness records for a test it ran has exactly
\* one of actual_output and error present, a call that returned None
\* included.
C13_ExactlyOneOfOutputAndError ==
  \A r \in Req :
    \A i \in DOMAIN child[r].results :
      (child[r].results[i].actual_output # NoneV)
        # (child[r].results[i].error # NoneV)

\* C14: when every call of the loop returned or raised an Exception, the
\* harness exits with status 0 and its list, and a returned value that
\* json.dumps cannot serialize is recorded as the error of its own test.
C14_FaultsRecordedPerTest ==
  \A r \in Req :
    (child[r].st = "exited" /\ child[r].phase = "tests"
       /\ Len(child[r].results) = Len(child[r].cases)) =>
      /\ child[r].rc = 0
      /\ \A i \in DOMAIN child[r].results :
           (child[r].calls[i].k = "ret"
              /\ ~Serializable(child[r].calls[i].v)) =>
             /\ child[r].results[i].error # NoneV
             /\ child[r].results[i].actual_output = NoneV

\* `out` is `src` with every token equal to the path replaced
Redacted(src, out, path) ==
  /\ Len(out) = Len(src)
  /\ \A i \in DOMAIN src :
       out[i] = (IF src[i] = path THEN "<user_code>" ELSE src[i])

NonZeroExit(r) == Returned(r) /\ child[r].st = "exited" /\ child[r].rc # 0

\* what lines 146-150 make of the captured error stream
StderrReported(r) ==
  IF Strip(child[r].err) = <<>>
    THEN exres[r].error = Msg("Execution failed", <<>>, 0)
    ELSE /\ exres[r].error.kind = "" /\ exres[r].error.limit = 0
         /\ Redacted(Strip(child[r].err), exres[r].error.text, tmp[r])

\* C15 as stated: after any non-zero exit execute returns no outcomes and
\* the error stream with the harness file's path replaced, or 'Execution
\* failed' when the stream is empty.
C15_NonZeroExitIsRedactedStderr ==
  \A r \in Req :
    NonZeroExit(r) =>
      /\ ~exres[r].raised /\ ~exres[r].success
      /\ exres[r].results = ListDoc(<<>>)
      /\ StderrReported(r)

\* C15, amended: after a non-zero exit execute returns no outcomes and an
\* error that is not empty and does not hold the harness file's path; the
\* error is the stripped error stream with every occurrence of the path
\* replaced, or 'Execution failed' when that is empty, provided the
\* captured streams are UTF-8 text, and 'Execution error: ...' otherwise.
C15_NonZeroExitReported ==
  \A r \in Req :
    NonZeroExit(r) =>
      /\ ~exres[r].raised /\ ~exres[r].success
      /\ exres[r].results = ListDoc(<<>>)
      /\ exres[r].error # NoMsg
      /\ \A i \in DOMAIN exres[r].error.text : exres[r].error.text[i] # tmp[r]
      /\ IF child[r].garbled
           THEN exres[r].error.kind = "Execution error: "
           ELSE StderrReported(r)

C15_Witness ==
  \E r \in Req :
    /\ NonZeroExit(r) /\ ~child[r].garbled
    /\ Cardinality({i \in DOMAIN child[r].err : child[r].err[i] = tmp[r]}) = 2
    /\ exres[r].error.text = <<"<user_code>", " and ", "<user_code>">>

\* C16: when the child exited with status 0 and its stdout, taken as text,
\* is not one JSON document, or is one that is no list, execute returns
\* (False, [], 'Failed to parse execution results').
C16_UndecodableStdoutIsParseFailure ==
  \A r \in Req :
    (Returned(r) /\ child[r].st = "exited" /\ child[r].rc = 0
       /\ ~child[r].garbled
       /\ LoadStdout(child[r].out).shape # "list") =>
      exres[r] = Failure(Msg("Failed to parse execution results", <<>>, 0))

EngineFailed(r) == ~exres[r].raised /\ ~exres[r].success

\* C17: a failure execute reports carries no outcomes and an error text;
\* a response has its error set exactly when execute reported a failure,
\* and then it is execute's error, results is empty and passed_tests is 0.
C17_ErrorIffRequestFailure ==
  \A r \in Req :
    /\ (Returned(r) /\ EngineFailed(r)) =>
         /\ exres[r].results = ListDoc(<<>>)
         /\ exres[r].error # NoMsg
    /\ Answered(r) =>
         /\ (resp[r].error # NoneMsg) <=> EngineFailed(r)
         /\ (resp[r].error # NoneMsg) =>
              /\ resp[r].error = exres[r].error /\ resp[r].error # NoMsg
              /\ resp[r].results = <<>> /\ resp[r].passed_tests = 0
              /\ ~resp[r].success

C17_Witness ==
  \E r \in Req :
    /\ Answered(r) /\ EngineFailed(r)
    /\ child[r].results # <<>>
    /\ resp[r].error # NoneMsg /\ resp[r].results = <<>>

Ended(r) == child[r].st \in {"exited", "killed"}

\* C19: one execute call starts at most one child; once its child was
\* killed at the deadline or has exited, the call starts no other, and a
\* killed or crashed child is reported as a failure of the request.
C19_NoRetry ==
  /\ [](\A r \in Req :
          /\ spawned[r] <= 1
          /\ (Returned(r) /\ (child[r].st = "killed" \/ child[r].rc # 0)) =>
               EngineFailed(r))
  /\ [][\A r \in Req :
          Ended(r) => /\ spawned'[r] <= spawned[r]
                      /\ child'[r].st # "running"
                      /\ pc'[r] # "spawn"]_vars

C19_Witness ==
  \E r \in Req :
    /\ pc[r] = "responded" /\ spawned[r] = 1
    /\ child[r].st = "exited" /\ child[r].rc = 1
    /\ child[r].err = Traceback(tmp[r], "SyntaxError")
    /\ EngineFailed(r) /\ resp[r].error # NoneMsg

\* deny-list entry n occurs in the code, letter case ignored
DeniedAt(n, code) ==
  \E i \in 0..(Len(code) - Len(BLACKLIST[n])) :
    \A j \in 1..Len(BLACKLIST[n]) :
      LowerChar(code[i + j]) = LowerChar(BLACKLIST[n][j])

\* the decision and reason the claim prescribes for a source
PrescribedVerdict(code) ==
  IF \E n \in 1..Len(BLACKLIST) : DeniedAt(n, code)
    THEN LET n == CHOOSE m \in 1..Len(BLACKLIST) :
                    /\ DeniedAt(m, code)
                    /\ \A l \in 1..(m - 1) : ~DeniedAt(l, code)
         IN  <<TRUE, Msg("Prohibited statement found: ", BLACKLIST[n], 0)>>
    ELSE <<FALSE, NoMsg>>

\* C20: the scan blocks a source exactly when some deny-list entry occurs
\* in it, letter case ignored; the reason names the first such entry in
\* deny-list order; with none it returns (False, "").  Seen in what execute
\* does after the scan and in the recorded scans.
C20_ScanBlocksFirstEntry ==
  /\ \A r \in Req :
       (InCall(r) /\ pc[r] # "scan") =>
         IF PrescribedVerdict(req[r].code)[1]
           THEN /\ Returned(r)
                /\ exres[r] = Failure(PrescribedVerdict(req[r].code)[2])
           ELSE exres[r].error.kind # "Prohibited statement found: "
  /\ \A i \in DOMAIN scanlog :
       scanlog[i].verdict = PrescribedVerdict(scanlog[i].code)

C20_Witness ==
  \E r \in Req :
    /\ Returned(r)
    /\ req[r].code = <<"e","v","a","l","(","I","m","p","o","r","t"," ","O","S">>
    /\ exres[r].error.text = BLACKLIST[1]
    /\ \E i \in DOMAIN scanlog : ~scanlog[i].verdict[1]

C22_ExactEqualityNoCoercion ==
  \A r \in Req :
    \A i \in DOMAIN child[r].results :
      child[r].calls[i].k = "ret" =>
        LET expected == req[r].exercise.test_cases[i].expected_output
            o == child[r].results[i]
        IN  /\ o.passed => child[r].calls[i].v = expected
            /\ ~o.passed => o.actual_output # expected

\* C23: for stored test cases whose values are JSON values, true, false
\* and null included, the harness does not fail on its embedded list, and
\* the list it iterates over equals the list given to execute.
C23_EmbeddedListRoundTrips ==
  \A r \in Req :
    child[r].st # "none" =>
      /\ child[r].err # Traceback(tmp[r], "NameError")
      /\ child[r].phase = "tests" =>
           child[r].cases = req[r].exercise.test_cases

C25_RequestsIndependent ==
  /\ executor = [timeout |-> settings.code_execution_timeout,
                 BLACKLIST |-> BLACKLIST]
  /\ \A r \in Req : ~child[r].shadowed

\* the calls that have created a harness file and not yet returned
LiveCalls == {r \in Req : tmp[r] # "" /\ pc[r] \in {"spawn", "wait", "finally"}}

CreateAnswered(c) == session[c].pc = "done" /\ session[c].op = "create"

C27_DuplicateNamesRejected ==
  /\ [](\A i, j \in DOMAIN categories :
          i # j => categories[i] # categories[j])
  /\ [](\A c \in Client :
          CreateAnswered(c) => session[c].status \in {201, 400})
  /\ [][\A c \in Client :
          ( /\ session[c].op = "create" /\ session[c].pc = "check"
            /\ session'[c].pc # "check"
            /\ get_category_by_name(session[c].name) )
          => session'[c].status = 400 /\ categories' = categories]_vars

\* C28: execute checks in a fixed order and creates nothing before it
\* accepts: a candidate with a deny-listed token and without a definition
\* of the entry point gets the policy-violation error, and a request that
\* either check rejects has no temporary file and no child process, the
\* step that rejects it changing neither files nor children.
RejectedByChecks(r) ==
  /\ Returned(r)
  /\ \/ HasDeniedToken(req[r].code)
     \/ EntryPointMissing(req[r].code, req[r].exercise.function_name)

C28_ChecksOrderedBeforeEffects ==
  /\ [](\A r \in Req :
          ( /\ Returned(r) /\ HasDeniedToken(req[r].code)
            /\ ~DefinesFunction(req[r].code, req[r].exercise.function_name) )
          => /\ ~exres[r].raised
             /\ exres[r].error.kind = "Prohibited statement found: ")
  /\ [](\A r \in Req :
          (pc[r] = "scan" \/ RejectedByChecks(r)) =>
            tmp[r] = "" /\ spawned[r] = 0 /\ child[r].st = "none")
  /\ [][\A r \in Req :
          (pc[r] = "scan" /\ pc'[r] # "scan") =>
            /\ fs' = fs /\ tmp' = tmp /\ child' = child /\ spawned' = spawned
            /\ pc'[r] \in {"route", "mktemp"}
            /\ (pc'[r] = "route") <=> RejectedByChecks(r)']_vars

C28_Witness ==
  \E r \in Req :
    /\ RejectedByChecks(r) /\ HasDeniedToken(req[r].code)
    /\ EntryPointMissing(req[r].code, req[r].exercise.function_name)
    /\ exres[r].error.kind = "Prohibited statement found: "
    /\ fs # {}

\* C29: within one server process executions are serialized: a child is
\* alive only while the handler that spawned it holds the event loop, no
\* other handler takes a step from the spawn to the child's exit or kill,
\* and so at most one child is alive at any instant although
\* max_concurrent_executions allows every request in flight a child.
C29_ExecutionsSerialized ==
  /\ [](settings.max_concurrent_executions >= NumReq)
  /\ [](Cardinality(Alive) <= 1)
  /\ [](\A r \in Alive : running = r /\ pc[r] = "wait")
  /\ [][\A r \in Alive : \A q \in Req \ {r} :
          /\ pc'[q] # pc[q] => pc[q] = "idle" /\ pc'[q] = "await_db"
          /\ child'[q] = child[q] /\ exres'[q] = exres[q]
          /\ resp'[q] = resp[q]]_vars

C29_Witness ==
  /\ settings.max_concurrent_executions > NumReq
  /\ Cardinality(Alive) = 1
  /\ \A q \in Req \ Alive : pc[q] = "await_db"
  /\ \E r \in Alive : child[r].hung

\* C30: the handler calls the engine only for an exercise that exists and
\* has a test case; an unknown exercise is answered 404 and one without test
\* cases 400, and the step that answers so scans nothing, creates no file
\* and starts no child.
Refused(r) == pc[r] = "responded" /\ ~Engaged(r)

C30_EngineOnlyForTestedExercise ==
  /\ [](\A r \in Req :
          pc[r] \in {"scan", "mktemp", "spawn", "wait", "finally", "route"} =>
            req[r].exercise.found /\ req[r].exercise.test_cases # <<>>)
  /\ [](\A r \in Req :
          Refused(r) =>
            /\ resp[r] = HttpError(IF req[r].exercise.found THEN 400 ELSE 404)
            /\ tmp[r] = "" /\ spawned[r] = 0 /\ child[r] = NoChild
            /\ exres[r] = NoResult)
  /\ [][\A r \in Req :
          (pc[r] = "await_db" /\ pc'[r] # "await_db") =>
            /\ Refused(r)' <=> pc'[r] # "scan"
            /\ Refused(r)' =>
                 /\ fs' = fs /\ scanlog' = scanlog /\ executor' = executor
                 /\ child' = child /\ spawned' = spawned /\ tmp' = tmp
                 /\ exres' = exres]_vars

C30_Witness ==
  \E r \in Req :
    /\ Refused(r) /\ req[r].exercise.found /\ resp[r].status = 400
    /\ fs # {} /\ scanlog # <<>>
    /\ \E q \in Req : pc[q] = "done"

====
